---- MODULE Spec2Model ----
(***************************************************************************)
(* A model of httpcachefs/smart_parquet/utils.py: atomic_write over a      *)
(* filesystem of directory entries and inodes, and the two SQL hint        *)
(* extractors extract_partition_column and extract_sql_url.                *)
(***************************************************************************)
EXTENDS Integers, Sequences, FiniteSets, TLC

(***************************************************************************)
(* Bounds of the model and constants of the program.                       *)
(***************************************************************************)
\* concurrent atomic_write calls modelled
NumCalls == 2
\* chunks a payload is written in (one write system call each)
PayloadLen == 2
\* largest max_retries a single call is given
MaxRetriesBound == 3
\* largest max_retries a call is given when two calls run concurrently
ConcRetriesBound == 1
\* def atomic_write(..., max_retries: int = 3)
DefaultMaxRetries == 3
\* wait_time = (2 ** attempt) * 0.01 seconds, kept in milliseconds
BackoffBaseMs == 10

Procs == 1..NumCalls
None == "None"
NoFile == 0

(***************************************************************************)
(* Paths.  A file name is the sequence of its dot-separated components,    *)
(* all in one directory: <<"a", "parquet">> is a.parquet.                  *)
(***************************************************************************)
TargetPaths == {<<"a", "parquet">>, <<"a", "json">>, <<"a", "tmp">>}

\* PurePath.with_suffix: the last suffix is REPLACED; a name without a
\* suffix gets one appended.
with_suffix(p, suffix) ==
    IF Len(p) > 1 THEN Append(SubSeq(p, 1, Len(p) - 1), suffix)
                  ELSE Append(p, suffix)

\* temp_path = path.with_suffix(".tmp")
staging_path(p) == with_suffix(p, "tmp")

Paths == TargetPaths \cup {staging_path(p) : p \in TargetPaths}

\* one inode per name that can exist, and one per call holding a file open
Inodes == 1..(Cardinality(Paths) + NumCalls)

(***************************************************************************)
(* File contents are sequences of chunks <<owner, index>>: owner 0 is the  *)
(* target's previous contents, owner -1 a stale staging file, owner p > 0  *)
(* the payload of call p; <<0, 0>> is a hole left by a write past the end. *)
(***************************************************************************)
Hole == <<0, 0>>
OldContents == <<<<0, 1>>, <<0, 2>>>>
StaleContents == <<<<-1, 1>>>>
Payload(p) == [i \in 1..PayloadLen |-> <<p, i>>]

\* errors the operating system or the runtime may raise in a system call
\*   busy      OSError "... being used by another process"
\*   perm      PermissionError "[Errno 13] Permission denied"
\*   oserror   any other OSError (disk full, invalid path)
\*   enoent    FileNotFoundError (an OSError)
\*   exception an exception that is no OSError
EnvErrors == {"busy", "perm", "oserror", "exception"}
OSErrors == {"busy", "perm", "oserror", "enoent"}

VARIABLES
    parent_exists,  \* path.parent is a directory
    dirent,         \* dirent[q]: the inode named q, or NoFile
    data,           \* data[i]: the contents of inode i
    pre,            \* pre[q]: what q named before any call (for the claims)
    path,           \* path[p]: the target of call p
    content,        \* content[p]: the payload of call p
    max_retries,    \* max_retries[p]
    temp_path,      \* temp_path[p]
    attempt,        \* attempt[p]: the loop variable
    last_error,     \* last_error[p]
    pc,             \* pc[p]: where call p is
    fd,             \* fd[p]: the inode call p holds open, or NoFile
    offset,         \* offset[p]: chunks written through fd[p]
    pauses,         \* pauses[p]: the sleeps performed, in ms
    tries,          \* tries[p]: loop iterations begun
    errlog,         \* errlog[p]: the error of each failed iteration
    outcome,        \* outcome[p]: None, "returned", or the error raised
    committed,      \* committed[p]: what the target held as p's rename returned
    last_rename,    \* the call whose rename succeeded last, or 0
    sql,            \* input of extract_partition_column
    part_result,    \* its result
    text,           \* input of extract_sql_url
    url_result,     \* its result
    hash_in,        \* two inputs (key, columns) of get_query_hash
    hash_out        \* their hashes

fsvars == <<parent_exists, dirent, data, pre>>
callvars == <<path, content, max_retries, temp_path, attempt, last_error, pc,
              fd, offset, pauses, tries, errlog, outcome, committed, last_rename>>
sqlvars == <<sql, part_result, text, url_result, hash_in, hash_out>>
vars == <<fsvars, callvars, sqlvars>>

(***************************************************************************)
(* The filesystem.                                                         *)
(***************************************************************************)
\* what a reader of q sees
View(d, dt, q) ==
    IF d[q] = NoFile THEN [exists |-> FALSE, bytes |-> <<>>]
                     ELSE [exists |-> TRUE, bytes |-> dt[d[q]]]
Read(q) == View(dirent, data, q)
NotCommitted == [exists |-> FALSE, bytes |-> <<>>]
FileOf(bytes) == [exists |-> TRUE, bytes |-> bytes]

Used(d, f) == ({d[q] : q \in Paths} \cup {f[p] : p \in Procs}) \ {NoFile}
\* an inode with no name and no open descriptor is freed
Collect(d, f, dt) == [i \in Inodes |-> IF i \in Used(d, f) THEN dt[i] ELSE <<>>]
FreeInode == CHOOSE i \in Inodes : i \notin Used(dirent, fd) /\
                 \A j \in Inodes : j \notin Used(dirent, fd) => i <= j

\* write(2) of one chunk at chunk offset k (0-based): a gap becomes a hole
WriteAt(bytes, k, chunk) ==
    [i \in 1..(IF Len(bytes) > k + 1 THEN Len(bytes) ELSE k + 1) |->
        IF i = k + 1 THEN chunk
        ELSE IF i <= Len(bytes) THEN bytes[i] ELSE Hole]

(***************************************************************************)
(* atomic_write, lines 97-154.                                             *)
(***************************************************************************)
\* line 125-130: the error text names a lock or a permission failure
is_lock_error_any_oserror(e) == e \in OSErrors
is_lock_error(e) == e \in OSErrors /\ e \in {"busy", "perm"}

\* line 134
wait_time(a) == (2 ^ a) * BackoffBaseMs

\* line 132: retry only a lock error, and not on the last attempt
should_retry_gives_up_early(p, e) ==
    is_lock_error(e) /\ attempt[p] < max_retries[p] - 2
should_retry_sleeps_on_last(p, e) ==
    is_lock_error(e) /\ attempt[p] < max_retries[p]
should_retry(p, e) == is_lock_error(e) /\ attempt[p] < max_retries[p] - 1

\* line 101: for attempt in range(max_retries)
in_range(p, a) == a < max_retries[p]

\* lines 122-144: the except clauses; the loop goes on (after the sleep) or
\* is left for the cleanup at line 146.
HandleError(p, e) ==
    /\ last_error' = [last_error EXCEPT ![p] = e]
    /\ errlog' = [errlog EXCEPT ![p] = Append(@, e)]
    /\ IF should_retry(p, e)
       THEN /\ pauses' = [pauses EXCEPT ![p] = Append(@, wait_time(attempt[p]))]
            /\ attempt' = [attempt EXCEPT ![p] = @ + 1]
            /\ pc' = [pc EXCEPT ![p] =
                        IF in_range(p, attempt[p] + 1) THEN "mkdir" ELSE "cleanup"]
       ELSE /\ pc' = [pc EXCEPT ![p] = "cleanup"]
            /\ UNCHANGED <<pauses, attempt>>

\* line 154: raise last_error if last_error else RuntimeError(...)
raised_error_first(p) == IF errlog[p] # <<>> THEN errlog[p][1] ELSE "RuntimeError"
raised_error(p) == IF last_error[p] # None THEN last_error[p] ELSE "RuntimeError"

\* lines 97-101: the staging path, and the first iteration if there is one
Begin(p) ==
    /\ pc[p] = "call"
    /\ temp_path' = [temp_path EXCEPT ![p] = staging_path(path[p])]
    /\ attempt' = [attempt EXCEPT ![p] = 0]
    /\ pc' = [pc EXCEPT ![p] = IF in_range(p, 0) THEN "mkdir" ELSE "cleanup"]
    /\ UNCHANGED <<fsvars, sqlvars, path, content, max_retries, last_error, fd,
                   offset, pauses, tries, errlog, outcome, committed, last_rename>>

\* line 104: path.parent.mkdir(parents=True, exist_ok=True)
Mkdir(p) ==
    /\ pc[p] = "mkdir"
    /\ tries' = [tries EXCEPT ![p] = @ + 1]
    /\ \/ /\ parent_exists' = TRUE
          /\ pc' = [pc EXCEPT ![p] = "exists"]
          /\ UNCHANGED <<attempt, last_error, pauses, errlog>>
       \/ /\ \E e \in EnvErrors : HandleError(p, e)
          /\ UNCHANGED parent_exists
    /\ UNCHANGED <<dirent, data, pre, sqlvars, path, content, max_retries,
                   temp_path, fd, offset, outcome, committed, last_rename>>

\* line 107: if temp_path.exists()
Exists(p) ==
    /\ pc[p] = "exists"
    /\ pc' = [pc EXCEPT ![p] =
                IF dirent[temp_path[p]] # NoFile THEN "unlink" ELSE "open"]
    /\ UNCHANGED <<fsvars, sqlvars, path, content, max_retries, temp_path,
                   attempt, last_error, fd, offset, pauses, tries, errlog,
                   outcome, committed, last_rename>>

\* lines 108-112: temp_path.unlink(), an OSError swallowed
Unlink(p) ==
    /\ pc[p] = "unlink"
    /\ \/ /\ dirent[temp_path[p]] # NoFile
          /\ LET d == [dirent EXCEPT ![temp_path[p]] = NoFile] IN
               /\ dirent' = d
               /\ data' = Collect(d, fd, data)
       \/ UNCHANGED <<dirent, data>>
    /\ pc' = [pc EXCEPT ![p] = "open"]
    /\ UNCHANGED <<parent_exists, pre, sqlvars, path, content, max_retries,
                   temp_path, attempt, last_error, fd, offset, pauses, tries,
                   errlog, outcome, committed, last_rename>>

\* line 115: open(temp_path, mode) creates the file or truncates it
Open(p) ==
    /\ pc[p] = "open"
    /\ \/ /\ parent_exists
          /\ LET t == temp_path[p]
                 i == IF dirent[t] # NoFile THEN dirent[t] ELSE FreeInode
             IN /\ dirent' = [dirent EXCEPT ![t] = i]
                /\ data' = [data EXCEPT ![i] = <<>>]
                /\ fd' = [fd EXCEPT ![p] = i]
          /\ offset' = [offset EXCEPT ![p] = 0]
          /\ pc' = [pc EXCEPT ![p] = "write"]
          /\ UNCHANGED <<attempt, last_error, pauses, errlog>>
       \/ /\ \E e \in EnvErrors : HandleError(p, e)
          /\ UNCHANGED <<dirent, data, fd, offset>>
    /\ UNCHANGED <<parent_exists, pre, sqlvars, path, content, max_retries,
                   temp_path, tries, outcome, committed, last_rename>>

\* line 116 and the end of the with block: f.write(content), one chunk per
\* step, then close; an error closes the file with what was written so far.
Write(p) ==
    /\ pc[p] = "write"
    /\ \/ /\ LET dt == [data EXCEPT ![fd[p]] =
                          WriteAt(@, offset[p], content[p][offset[p] + 1])]
                 last == offset[p] + 1 = Len(content[p])
                 f == IF last THEN [fd EXCEPT ![p] = NoFile] ELSE fd
             IN /\ fd' = f
                /\ data' = Collect(dirent, f, dt)
                /\ pc' = [pc EXCEPT ![p] = IF last THEN "replace" ELSE "write"]
          /\ offset' = [offset EXCEPT ![p] = @ + 1]
          /\ UNCHANGED <<attempt, last_error, pauses, errlog>>
       \/ /\ \E e \in EnvErrors : HandleError(p, e)
          /\ fd' = [fd EXCEPT ![p] = NoFile]
          /\ data' = Collect(dirent, fd', data)
          /\ UNCHANGED offset
    /\ UNCHANGED <<parent_exists, dirent, pre, sqlvars, path, content,
                   max_retries, temp_path, tries, outcome, committed, last_rename>>

\* what rename(2) raises when it fails: ENOENT if the source name is gone
replace_errors(p) ==
    IF dirent[temp_path[p]] = NoFile THEN {"enoent"} ELSE EnvErrors

\* lines 119-120: temp_path.replace(path), then return
Replace(p) ==
    /\ pc[p] = "replace"
    /\ \/ /\ dirent[temp_path[p]] # NoFile
          /\ LET d == [dirent EXCEPT ![temp_path[p]] = NoFile,
                                     ![path[p]] = dirent[temp_path[p]]]
             IN /\ dirent' = d
                /\ data' = Collect(d, fd, data)
                /\ committed' = [committed EXCEPT ![p] = View(d, data, path[p])]
          /\ last_rename' = p
          /\ outcome' = [outcome EXCEPT ![p] = "returned"]
          /\ pc' = [pc EXCEPT ![p] = "returned"]
          /\ UNCHANGED <<attempt, last_error, pauses, errlog>>
       \/ /\ \E e \in replace_errors(p) : HandleError(p, e)
          /\ UNCHANGED <<dirent, data, committed, last_rename, outcome>>
    /\ UNCHANGED <<parent_exists, pre, sqlvars, path, content, max_retries,
                   temp_path, fd, offset, tries>>

\* line 148: if temp_path.exists(); line 154 when it does not
CleanupExists(p) ==
    /\ pc[p] = "cleanup"
    /\ IF dirent[temp_path[p]] # NoFile
       THEN /\ pc' = [pc EXCEPT ![p] = "cleanup_unlink"]
            /\ UNCHANGED outcome
       ELSE /\ pc' = [pc EXCEPT ![p] = "raised"]
            /\ outcome' = [outcome EXCEPT ![p] = raised_error(p)]
    /\ UNCHANGED <<fsvars, sqlvars, path, content, max_retries, temp_path,
                   attempt, last_error, fd, offset, pauses, tries, errlog,
                   committed, last_rename>>

\* lines 149-154: temp_path.unlink(), an OSError swallowed; then raise
CleanupUnlink(p) ==
    /\ pc[p] = "cleanup_unlink"
    /\ \/ /\ dirent[temp_path[p]] # NoFile
          /\ LET d == [dirent EXCEPT ![temp_path[p]] = NoFile] IN
               /\ dirent' = d
               /\ data' = Collect(d, fd, data)
       \/ UNCHANGED <<dirent, data>>
    /\ pc' = [pc EXCEPT ![p] = "raised"]
    /\ outcome' = [outcome EXCEPT ![p] = raised_error(p)]
    /\ UNCHANGED <<parent_exists, pre, sqlvars, path, content, max_retries,
                   temp_path, attempt, last_error, fd, offset, pauses, tries,
                   errlog, committed, last_rename>>

\* the process dies between two steps; the system closes its descriptor
Running == {"mkdir", "exists", "unlink", "open", "write", "replace",
            "cleanup", "cleanup_unlink"}
Crash(p) ==
    /\ pc[p] \in Running
    /\ pc' = [pc EXCEPT ![p] = "crashed"]
    /\ fd' = [fd EXCEPT ![p] = NoFile]
    /\ data' = Collect(dirent, fd', data)
    /\ UNCHANGED <<parent_exists, dirent, pre, sqlvars, path, content,
                   max_retries, temp_path, attempt, last_error, offset, pauses,
                   tries, errlog, outcome, committed, last_rename>>

Step(p) ==
    \/ Begin(p)
    \/ Mkdir(p)
    \/ Exists(p)
    \/ Unlink(p)
    \/ Open(p)
    \/ Write(p)
    \/ Replace(p)
    \/ CleanupExists(p)
    \/ CleanupUnlink(p)
    \/ Crash(p)

(***************************************************************************)
(* extract_partition_column, lines 56-83.  A query is given by the         *)
(* predicates of its WHERE clause as written and the AND/OR between them;  *)
(* parse_one builds sqlglot's tree and find_all walks it.                  *)
(***************************************************************************)
\* predicates in a WHERE clause
MaxPredicates == 3
\* column names, by the position of the predicate as written
ColumnNames == <<"id", "status", "uuid", "k", "key">>
Raised == "raise"
Pending == "pending"

PredicateOps == {"EQ", "In", "GT"}
Subjects == {"column", "qualified", "function", "literal"}
Predicates == [op : PredicateOps, subject : Subjects]
Connectives == {"AND", "OR"}
Queries ==
    {[valid |-> FALSE, where |-> <<>>, ops |-> <<>>]} \cup
    UNION {[valid : {TRUE}, where : [1..n -> Predicates],
            ops : [1..(IF n = 0 THEN 0 ELSE n - 1) -> Connectives]] :
           n \in 0..MaxPredicates}

\* an expression node: its class, its text, and its args in order
Node(type, name, args) == [type |-> type, name |-> name, args |-> args]
ParseError == Node("ParseError", "", <<>>)
NoNode == Node("None", "", <<>>)
Literal == Node("Literal", "1", <<>>)
Identifier(name) == Node("Identifier", name, <<>>)
Column(name, qualified) ==
    Node("Column", "", IF qualified THEN <<Identifier(name), Identifier("t")>>
                                    ELSE <<Identifier(name)>>)

\* one predicate as parsed: the subject is args[1] (this, the left side)
SubjectNode(pr, i) ==
    CASE pr.subject = "column" -> Column(ColumnNames[i], FALSE)
      [] pr.subject = "qualified" -> Column(ColumnNames[i], TRUE)
      [] pr.subject = "function" -> Node("Lower", "", <<Column(ColumnNames[i], FALSE)>>)
      [] OTHER -> Literal
PredicateNode(pr, i) ==
    IF pr.op = "In" THEN Node("In", "", <<SubjectNode(pr, i), Literal, Literal>>)
                    ELSE Node(pr.op, "", <<SubjectNode(pr, i), Literal>>)

\* the parser's loops: AND binds tighter than OR, both build left-deep trees
RECURSIVE ConjunctionLoop(_, _, _)
ConjunctionLoop(q, this, i) ==
    IF i < Len(q.where) /\ q.ops[i] = "AND"
    THEN ConjunctionLoop(q, Node("And", "", <<this, PredicateNode(q.where[i + 1], i + 1)>>),
                         i + 1)
    ELSE [tree |-> this, last |-> i]
Conjunction(q, i) == ConjunctionLoop(q, PredicateNode(q.where[i], i), i)
RECURSIVE DisjunctionLoop(_, _, _)
DisjunctionLoop(q, this, i) ==
    IF i < Len(q.where)
    THEN LET c == Conjunction(q, i + 1)
         IN DisjunctionLoop(q, Node("Or", "", <<this, c.tree>>), c.last)
    ELSE this
ParseCondition(q) ==
    LET c == Conjunction(q, 1) IN DisjunctionLoop(q, c.tree, c.last)

\* line 57: sqlglot.parse_one(sql); a malformed query raises ParseError
parse_one(q) ==
    IF ~q.valid THEN ParseError
    ELSE Node("Select", "",
              IF q.where = <<>> THEN <<Node("From", "t", <<>>)>>
              ELSE <<Node("From", "t", <<>>), Node("Where", "", <<ParseCondition(q)>>)>>)

\* Expression.walk(bfs=True): a queue of nodes, children appended in order
RECURSIVE bfs(_)
bfs(queue) ==
    IF queue = <<>> THEN <<>>
    ELSE <<Head(queue)>> \o bfs(Tail(queue) \o Head(queue).args)

\* line 64: Expression.find_all(types), breadth first by default
find_all(root, types) ==
    LET IsOne(n) == n.type \in types IN SelectSeq(bfs(<<root>>), IsOne)
\* line 58: Expression.find(type)
find(root, types) ==
    LET all == find_all(root, types) IN IF all = <<>> THEN NoNode ELSE all[1]

\* lines 68-75: the condition's left side (this) is a Column
column_of(condition) ==
    IF condition.args[1].type = "Column" THEN condition.args[1] ELSE NoNode
\* line 78: Column.name is the text of its identifier, the table left out
name_of(column) == column.args[1].name

\* lines 57-80: the body of the try block; Raised when parse_one raises
extract_body(q) ==
    LET parsed == parse_one(q) IN
    IF parsed = ParseError THEN Raised
    ELSE LET where == find(parsed, {"Where"}) IN
         IF where = NoNode THEN None
         ELSE LET HasColumn(c) == column_of(c) # NoNode
                  found == SelectSeq(find_all(where, {"EQ", "In"}), HasColumn)
              IN IF found = <<>> THEN None ELSE name_of(column_of(found[1]))

\* lines 56-83: except Exception: return None
extract_partition_column_unguarded(q) == extract_body(q)
extract_partition_column(q) ==
    LET r == extract_body(q) IN IF r = Raised THEN None ELSE r

ExtractPartitionColumn ==
    /\ part_result = Pending
    /\ part_result' = extract_partition_column(sql)
    /\ UNCHANGED <<fsvars, callvars, sql, text, url_result, hash_in, hash_out>>

(***************************************************************************)
(* extract_sql_url, lines 172-175: re.search(r"FROM\s+'([^']+)'", sql,     *)
(* re.IGNORECASE | re.DOTALL) over the characters of the text.             *)
(***************************************************************************)
\* pieces a text is made of
MaxPieces == 4
Pieces == {<<"F", "R", "O", "M", " ">>, <<"f", "r", "o", "m", "\n", " ", " ">>,
           <<"F", "r", "o", "m">>, <<" ">>, <<"'">>, <<"u">>,
           <<"'", "u", "'">>, <<"'", "v", "u", "'">>, <<"'", "'">>}
RECURSIVE Concat(_)
Concat(ps) == IF ps = <<>> THEN <<>> ELSE Head(ps) \o Concat(Tail(ps))
Texts == {Concat(ps) : ps \in UNION {[1..n -> Pieces] : n \in 0..MaxPieces}}

\* re.IGNORECASE: letters compare by their lower case
lower_case_sensitive(c) == c
lower(c) ==
    CASE c = "F" -> "f" [] c = "R" -> "r" [] c = "O" -> "o" [] c = "M" -> "m"
      [] OTHER -> c
\* \s
is_space(c) == c \in {" ", "\n", "\t"}
Quote == "'"

\* FROM at position i
from_at(t, i) ==
    /\ i + 3 <= Len(t)
    /\ <<lower(t[i]), lower(t[i + 1]), lower(t[i + 2]), lower(t[i + 3])>>
         = <<"f", "r", "o", "m">>
\* \s+ and [^']+ are greedy runs: the first position from j that ends one
RECURSIVE skip_spaces(_, _)
skip_spaces(t, j) ==
    IF j <= Len(t) /\ is_space(t[j]) THEN skip_spaces(t, j + 1) ELSE j
RECURSIVE skip_non_quotes(_, _)
skip_non_quotes(t, j) ==
    IF j <= Len(t) /\ t[j] # Quote THEN skip_non_quotes(t, j + 1) ELSE j

NoMatch == [state |-> "absent", url |-> <<>>]
\* the pattern matched at position i: its group 1, or NoMatch
match_at(t, i) ==
    IF ~from_at(t, i) THEN NoMatch
    ELSE LET j == skip_spaces(t, i + 4) IN
         IF j = i + 4 \/ j > Len(t) \/ t[j] # Quote THEN NoMatch
         ELSE LET k == skip_non_quotes(t, j + 1) IN
              IF k = j + 1 \/ k > Len(t) THEN NoMatch
              ELSE [state |-> "url", url |-> SubSeq(t, j + 1, k - 1)]
\* re.search: the match at the leftmost position that has one
RECURSIVE search(_, _)
search(t, i) ==
    IF i > Len(t) THEN NoMatch
    ELSE IF match_at(t, i) # NoMatch THEN match_at(t, i) ELSE search(t, i + 1)

\* lines 172-175
extract_sql_url(t) == search(t, 1)

PendingUrl == [state |-> "pending", url |-> <<>>]
ExtractSqlUrl ==
    /\ url_result = PendingUrl
    /\ url_result' = extract_sql_url(text)
    /\ UNCHANGED <<fsvars, callvars, sql, part_result, text, hash_in, hash_out>>

(***************************************************************************)
(* get_query_hash, lines 24-36.  Strings are sequences of characters; the  *)
(* columns are None or a list of strings.                                  *)
(***************************************************************************)
\* columns in a list
MaxColumns == 2
PartitionValues == {<<"k">>, <<"v">>}
\* column names: a, b, the empty name, and the name a', 'b
ColumnChoices == {<<"a">>, <<"b">>, <<>>, <<"a", "'", ",", " ", "'", "b">>}
ColumnLists == UNION {[1..n -> ColumnChoices] : n \in 0..MaxColumns}
NoColumns == [given |-> FALSE, list |-> <<>>]
ColumnInputs == {NoColumns} \cup {[given |-> TRUE, list |-> l] : l \in ColumnLists}
HashInputs == [key : PartitionValues, columns : ColumnInputs]

Chars(str) == {str[i] : i \in DOMAIN str}
\* repr of a str: double quotes when it holds ' and no ", else single quotes;
\* the backslash and the chosen quote are escaped
repr_quote(str) == IF "'" \in Chars(str) /\ "\"" \notin Chars(str) THEN "\"" ELSE "'"
RECURSIVE repr_escape(_, _)
repr_escape(str, quote) ==
    IF str = <<>> THEN <<>>
    ELSE (IF Head(str) \in {"\\", quote} THEN <<"\\", Head(str)>> ELSE <<Head(str)>>)
         \o repr_escape(Tail(str), quote)
repr(str) == <<repr_quote(str)>> \o repr_escape(str, repr_quote(str)) \o <<repr_quote(str)>>
\* ", ".join(repr(x) for x in list)
RECURSIVE join_reprs(_)
join_reprs(list) ==
    IF list = <<>> THEN <<>>
    ELSE IF Len(list) = 1 THEN repr(list[1])
    ELSE repr(Head(list)) \o <<",", " ">> \o join_reprs(Tail(list))
\* line 35: str(columns), of None or of a list
str_columns_none_as_empty(columns) == <<"[">> \o join_reprs(columns.list) \o <<"]">>
str_columns(columns) ==
    IF ~columns.given THEN <<"N", "o", "n", "e">>
    ELSE <<"[">> \o join_reprs(columns.list) \o <<"]">>
\* line 36: sha256(...).hexdigest(), taken to be collision free: the digest
\* stands for the text it was computed from
sha256_hexdigest(t) == <<"sha256">> \o t
\* lines 35-36
get_query_hash(key, columns) ==
    sha256_hexdigest(key \o <<"|">> \o str_columns(columns))

GetQueryHash ==
    /\ hash_out = <<>>
    /\ hash_out' = <<get_query_hash(hash_in[1].key, hash_in[1].columns),
                     get_query_hash(hash_in[2].key, hash_in[2].columns)>>
    /\ UNCHANGED <<fsvars, callvars, sql, part_result, text, url_result, hash_in>>

(***************************************************************************)
(* Initial states: the files that exist before the calls, and the calls.   *)
(***************************************************************************)
PathSeq == CHOOSE s \in [1..Cardinality(Paths) -> Paths] :
               \A q \in Paths : \E i \in DOMAIN s : s[i] = q
InodeOf(q) == CHOOSE i \in DOMAIN PathSeq : PathSeq[i] = q
StagingPaths == {staging_path(q) : q \in TargetPaths}
InitialContents(q) == IF q \in StagingPaths THEN StaleContents ELSE OldContents

InitHashIdle ==
    /\ hash_in = <<[key |-> <<"k">>, columns |-> NoColumns],
                   [key |-> <<"k">>, columns |-> NoColumns]>>
    /\ hash_out = <<>>

InitSql ==
    /\ sql = [valid |-> FALSE, where |-> <<>>, ops |-> <<>>]
    /\ part_result = None
    /\ text = <<>>
    /\ url_result = NoMatch
    /\ InitHashIdle

InitFiles ==
    /\ \E present \in SUBSET Paths :
         /\ dirent = [q \in Paths |-> IF q \in present THEN InodeOf(q) ELSE NoFile]
         /\ data = [i \in Inodes |->
                      IF \E q \in present : InodeOf(q) = i
                      THEN InitialContents(PathSeq[i]) ELSE <<>>]
         /\ parent_exists \in (IF present = {} THEN BOOLEAN ELSE {TRUE})
    /\ pre = [q \in Paths |-> View(dirent, data, q)]

\* the calls of `active` are made; the others are never made
InitCalls(active, retries) ==
    /\ path \in [Procs -> TargetPaths]
    /\ \A p \in Procs \ active : path[p] = <<"a", "parquet">>
    /\ content = [p \in Procs |-> Payload(p)]
    /\ max_retries \in [Procs -> retries]
    /\ \A p \in Procs \ active : max_retries[p] = DefaultMaxRetries
    /\ temp_path = [p \in Procs |-> <<>>]
    /\ attempt = [p \in Procs |-> 0]
    /\ last_error = [p \in Procs |-> None]
    /\ pc = [p \in Procs |-> IF p \in active THEN "call" ELSE "idle"]
    /\ fd = [p \in Procs |-> NoFile]
    /\ offset = [p \in Procs |-> 0]
    /\ pauses = [p \in Procs |-> <<>>]
    /\ tries = [p \in Procs |-> 0]
    /\ errlog = [p \in Procs |-> <<>>]
    /\ outcome = [p \in Procs |-> None]
    /\ committed = [p \in Procs |-> NotCommitted]
    /\ last_rename = 0

\* one call, alone
Init == InitFiles /\ InitCalls({1}, 0..MaxRetriesBound) /\ InitSql
Next == \E p \in Procs : Step(p)
Spec == Init /\ [][Next]_vars

\* two calls at once
ConcTargets == {<<"a", "parquet">>, <<"a", "json">>}
InitConc ==
    /\ InitFiles
    /\ InitCalls({1, 2}, 1..ConcRetriesBound)
    /\ \A p \in Procs : path[p] \in ConcTargets
    /\ InitSql
SpecConc == InitConc /\ [][Next]_vars

\* no call of atomic_write
InitIdle ==
    /\ dirent = [q \in Paths |-> NoFile]
    /\ data = [i \in Inodes |-> <<>>]
    /\ parent_exists = FALSE
    /\ pre = [q \in Paths |-> View(dirent, data, q)]
    /\ InitCalls({}, {DefaultMaxRetries})

\* extract_partition_column on every query
InitPartition ==
    /\ InitIdle
    /\ sql \in Queries
    /\ part_result = Pending
    /\ text = <<>>
    /\ url_result = NoMatch
    /\ InitHashIdle
SpecPartition == InitPartition /\ [][ExtractPartitionColumn]_vars

\* extract_sql_url on every text
InitUrl ==
    /\ InitIdle
    /\ sql = [valid |-> FALSE, where |-> <<>>, ops |-> <<>>]
    /\ part_result = None
    /\ text \in Texts
    /\ url_result = PendingUrl
    /\ InitHashIdle
SpecUrl == InitUrl /\ [][ExtractSqlUrl]_vars

\* get_query_hash on every pair of inputs
InitHash ==
    /\ InitIdle
    /\ sql = [valid |-> FALSE, where |-> <<>>, ops |-> <<>>]
    /\ part_result = None
    /\ text = <<>>
    /\ url_result = NoMatch
    /\ hash_in \in [1..2 -> HashInputs]
    /\ hash_out = <<>>
SpecHash == InitHash /\ [][GetQueryHash]_vars

(***************************************************************************)
(* Properties of atomic_write.                                             *)
(***************************************************************************)
Called == {p \in Procs : pc[p] # "idle"}
Failed(p) == pc[p] = "raised"
TransientErrors == {"busy", "perm"}
AllTransient(log) == \A i \in DOMAIN log : log[i] \in TransientErrors
RECURSIVE SumSeq(_)
SumSeq(s) == IF s = <<>> THEN 0 ELSE Head(s) + SumSeq(Tail(s))
SameTarget == \A p, q \in Called : path[p] = path[q]

\* C1: during one call, whatever the target's name, the target holds at
\* every instant either its complete previous contents (or absence) or the
\* complete payload.
C1_TargetOldOrNew ==
    \A p \in Called :
        max_retries[p] >= 1 =>
            Read(path[p]) \in {pre[path[p]], FileOf(content[p])}

\* C2: with two calls on one target, a reader of the target only ever sees
\* the complete previous contents or the complete payload of one of the calls.
C2_ReaderSeesComplete ==
    SameTarget =>
        \A p \in Called :
            Read(path[p]) \in {pre[path[p]]} \cup {FileOf(content[q]) : q \in Called}

\* C3: a call that ended by raising left the target exactly as it was before
\* the call, and at most one staging file that was not there before.
C3_FailedLeavesTarget ==
    \A p \in Called :
        (Failed(p) /\ max_retries[p] >= 1) =>
            /\ Read(path[p]) = pre[path[p]]
            /\ Cardinality({q \in Paths \ TargetPaths :
                               dirent[q] # NoFile /\ ~pre[q].exists}) <= 1

\* C4: two calls on different targets have different staging paths, neither
\* of them a target, and once both have returned each target holds its own
\* call's payload.
C4_StagingPathsDistinct ==
    \A p, q \in Called :
        (p # q /\ path[p] # path[q] /\ temp_path[p] # <<>> /\ temp_path[q] # <<>>) =>
            /\ temp_path[p] # temp_path[q]
            /\ temp_path[p] \notin {path[p], path[q]}
            /\ (pc[p] = "returned" /\ pc[q] = "returned" =>
                    Read(path[p]) = FileOf(content[p]))

\* C5: with max_retries >= 1 a call never begins more than max_retries
\* attempts; when every attempt failed with a transient contention error it
\* made exactly max_retries attempts, and it ends by raising that error,
\* never by returning.
C5_RetryCeiling ==
    \A p \in Called :
        max_retries[p] >= 1 =>
            /\ tries[p] <= max_retries[p]
            /\ (pc[p] \in {"cleanup", "cleanup_unlink", "raised"}
                  /\ AllTransient(errlog[p])) =>
                    /\ tries[p] = max_retries[p]
                    /\ Len(errlog[p]) = max_retries[p]
            /\ (Failed(p) /\ AllTransient(errlog[p])) =>
                    outcome[p] \in TransientErrors
            /\ pc[p] = "returned" => Len(errlog[p]) < tries[p]
C5_Witness ==
    \E p \in Called :
        /\ Failed(p) /\ max_retries[p] = DefaultMaxRetries
        /\ AllTransient(errlog[p]) /\ tries[p] = DefaultMaxRetries

\* the case of C6: the default max_retries, every attempt failed with a
\* transient contention error, and the call has raised
ExhaustedDefault(p) ==
    /\ Failed(p) /\ max_retries[p] = DefaultMaxRetries
    /\ Len(errlog[p]) = DefaultMaxRetries /\ AllTransient(errlog[p])

C7_LastWriterWins ==
    SameTarget =>
        /\ \A p \in Called :
              committed[p] # NotCommitted => committed[p] = FileOf(content[p])
        /\ ((\A p \in Called : pc[p] \in {"returned", "raised"}) /\ last_rename # 0) =>
              Read(path[last_rename]) = FileOf(content[last_rename])

\* C12: the parent directory is created once per call and outside the retry
\* policy: a failure of mkdir, a permission failure included, ends the
\* attempts at once, with no pause.
C12_MkdirNotRetried ==
    [][\A p \in Called :
          /\ tries'[p] <= 1
          /\ (pc[p] = "mkdir" /\ Len(errlog'[p]) > Len(errlog[p])) =>
                (pc'[p] = "cleanup" /\ pauses'[p] = pauses[p])]_vars

\* C13: the attempt on which an error that is no transient contention error
\* occurs is the last one: it is the last error logged, no attempt is begun
\* after it and no pause follows it.
C13_NonTransientAborts ==
    \A p \in Called :
        \A i \in DOMAIN errlog[p] :
            errlog[p][i] \notin TransientErrors =>
                /\ i = Len(errlog[p])
                /\ tries[p] = i
                /\ Len(pauses[p]) = i - 1
                /\ pc[p] \in {"cleanup", "cleanup_unlink", "raised", "crashed"}
C13_Witness ==
    \E p \in Called :
        /\ Failed(p) /\ max_retries[p] = DefaultMaxRetries
        /\ errlog[p] = <<"busy", "oserror">>
        /\ pauses[p] = <<10>>

\* C14: the error raised is the error of the last attempt made, whatever
\* the earlier ones were and whether or not the staging file could be
\* removed, and the raise comes after the removal of the staging file was
\* attempted (or after there was found to be none).
C14_LastErrorRaised ==
    [][\A p \in Called :
          (pc'[p] = "raised" /\ pc[p] # "raised") =>
             /\ errlog[p] # <<>> => outcome'[p] = errlog[p][Len(errlog[p])]
             /\ \/ pc[p] = "cleanup_unlink"
                \/ pc[p] = "cleanup" /\ dirent[temp_path[p]] = NoFile]_vars
C14_Witness ==
    \E p \in Called :
        /\ Failed(p) /\ Len(errlog[p]) >= 2
        /\ errlog[p][1] # outcome[p]
        /\ outcome[p] = errlog[p][Len(errlog[p])]
        /\ temp_path[p] # path[p]
        /\ dirent[temp_path[p]] # NoFile

\* C15: a call whose first attempts failed with transient contention errors
\* and whose next attempt succeeded returns without an error, with nothing
\* attempted and no pause after the rename; the target then holds exactly
\* the payload and there is no file at the staging path.
C15_SuccessAfterRetries ==
    \A p \in Called :
        pc[p] = "returned" =>
            /\ outcome[p] = "returned"
            /\ AllTransient(errlog[p])
            /\ tries[p] = Len(errlog[p]) + 1
            /\ Len(pauses[p]) = Len(errlog[p])
            /\ Read(path[p]) = FileOf(content[p])
            /\ dirent[temp_path[p]] = NoFile

\* C16: when a stale staging file was there before the call, whatever it
\* held and whether or not it could be removed, a call that returns leaves
\* the target holding exactly the payload and no file at the staging path.
C16_StaleStagingNeverCommitted ==
    \A p \in Called :
        (pc[p] = "returned" /\ pre[staging_path(path[p])].exists) =>
            /\ Read(path[p]) = FileOf(content[p])
            /\ dirent[staging_path(path[p])] = NoFile

\* C17: with two calls on one target, a call that has raised has not made
\* its payload the contents of the target.
C17_NoPartialSuccess ==
    SameTarget =>
        \A p \in Called : Failed(p) => Read(path[p]) # FileOf(content[p])

\* C18: with max_retries <= 0 the call makes no attempt, leaves the target
\* as it was, and raises the generic failure after removing any file at the
\* staging path.
C18_NoAttempts ==
    \A p \in Called :
        max_retries[p] <= 0 =>
            /\ tries[p] = 0 /\ errlog[p] = <<>> /\ pauses[p] = <<>>
            /\ pc[p] \in {"call", "cleanup", "cleanup_unlink", "raised", "crashed"}
            /\ Read(path[p]) = pre[path[p]]
            /\ Failed(p) =>
                  /\ outcome[p] = "RuntimeError"
                  /\ dirent[temp_path[p]] = NoFile

(***************************************************************************)
(* Properties of extract_partition_column.                                 *)
(***************************************************************************)
\* an equality or membership predicate whose subject is a column reference
Matches(pr) == pr.op \in {"EQ", "In"} /\ pr.subject \in {"column", "qualified"}
MatchingPositions(q) == {i \in DOMAIN q.where : Matches(q.where[i])}
\* the column of the leftmost such predicate as written, or None
LeftmostColumn(q) ==
    IF MatchingPositions(q) = {} THEN None
    ELSE ColumnNames[CHOOSE i \in MatchingPositions(q) :
                        \A j \in MatchingPositions(q) : i <= j]

\* C8: for a WHERE clause of any number of predicates joined by AND/OR the
\* result is the unqualified column of the leftmost-as-written equality or
\* IN predicate whose subject is a column reference.
C8_LeftmostPredicate ==
    (part_result # Pending /\ sql.valid /\ sql.where # <<>>) =>
        part_result = LeftmostColumn(sql)

\* C9: the result is always a column name or None, never an escaping
\* exception, and it is None when parsing fails, when there is no WHERE
\* clause, and when no equality or IN predicate has a column subject.
C9_TotalFunction ==
    part_result # Pending =>
        /\ part_result # Raised
        /\ part_result \in {None} \cup {ColumnNames[i] : i \in DOMAIN ColumnNames}
        /\ ~sql.valid => part_result = None
        /\ sql.where = <<>> => part_result = None
        /\ MatchingPositions(sql) = {} => part_result = None
C9_Witness ==
    /\ part_result = None
    /\ ~sql.valid

(***************************************************************************)
(* Properties of extract_sql_url.                                          *)
(***************************************************************************)
\* FROM in any letter case at i, one or more whitespace characters up to a
\* quote at j, and the next quote at k; min is the least length of the
\* literal between them
Occurrence(t, i, j, k, min) ==
    /\ i + 3 <= Len(t)
    /\ \A n \in 0..3 : t[i + n] \in {<<"F", "R", "O", "M">>[n + 1],
                                      <<"f", "r", "o", "m">>[n + 1]}
    /\ j > i + 4 /\ j <= Len(t) /\ t[j] = "'"
    /\ \A n \in (i + 4)..(j - 1) : t[n] \in {" ", "\n", "\t"}
    /\ k >= j + 1 + min /\ k <= Len(t) /\ t[k] = "'"
    /\ \A n \in (j + 1)..(k - 1) : t[n] # "'"
OccursAt(t, i, min) ==
    \E j \in (i + 5)..Len(t) : \E k \in (j + 1)..Len(t) : Occurrence(t, i, j, k, min)
\* the result the claim describes, for literals of at least min characters
FirstOccurrenceIs(t, r, min) ==
    IF \E i \in 1..Len(t) : OccursAt(t, i, min)
    THEN /\ r.state = "url"
         /\ \E i \in 1..Len(t) : \E j \in (i + 5)..Len(t) : \E k \in (j + 1)..Len(t) :
               /\ Occurrence(t, i, j, k, min)
               /\ \A h \in 1..(i - 1) : ~OccursAt(t, h, min)
               /\ r.url = SubSeq(t, j + 1, k - 1)
    ELSE r.state = "absent"

C11_OrderSensitiveKey ==
    hash_out # <<>> =>
        /\ hash_in[1] = hash_in[2] => hash_out[1] = hash_out[2]
        /\ (hash_in[1].key = hash_in[2].key
              /\ hash_in[1].columns # hash_in[2].columns) =>
                 hash_out[1] # hash_out[2]
C11_Witness ==
    /\ hash_out # <<>>
    /\ hash_in[1].key = hash_in[2].key
    /\ hash_in[1].columns = [given |-> TRUE, list |-> <<<<"a">>, <<"b">>>>]
    /\ hash_in[2].columns = [given |-> TRUE, list |-> <<<<"b">>, <<"a">>>>]
    /\ hash_out[1] # hash_out[2]

====
